---- MODULE Spec2Model ----
(***************************************************************************)
(* Model of the link-resolution and click-tracking engine of              *)
(* server/index.js: the CSV record store (readCSV, writeCSV, appendToCSV), *)
(* the link-creation handler POST /api/links, the public resolver          *)
(* GET /:shortCode and the analytics handler GET /api/analytics.           *)
(*                                                                         *)
(* Every handler is an async function: it runs without interruption up to *)
(* an `await` of a store operation and other requests run while it waits. *)
(* One action of the model is the completion of one awaited operation      *)
(* (a store operation, bcrypt.hash) together with the synchronous code that *)
(* follows it, up to the next await.  A readCSV sees the file as it is when *)
(* it completes, a writeCSV replaces the whole file when it completes.      *)
(*                                                                         *)
(* Rows are what the CSV files hold: every field is a string.             *)
(***************************************************************************)
EXTENDS Integers, Sequences, FiniteSets, TLC

(***************************************************************************)
(* Bounds of the model.                                                    *)
(***************************************************************************)
\* number of HTTP requests of one run (all of them may be in flight at once)
MaxReq == 2
\* number of HTTP requests of a run whose requests come one after another
MaxSerial == 3
\* the clock (Date.now()) starts at StartTime and stops ticking at MaxTime
StartTime == 2
MaxTime == 3
\* parseInt is computed for the decimal strings of 0..MaxNum
MaxNum == 6

Req == 1..MaxReq

\* the requests the state has room for
Slot == 1..MaxSerial

(***************************************************************************)
(* String conversions of the untyped store.                                *)
(***************************************************************************)
Digit == <<"0", "1", "2", "3", "4", "5", "6", "7", "8", "9">>

\* Number.prototype.toString / the CSV writer's String(n), n >= 0
RECURSIVE toString(_)
toString(n) ==
    IF n < 10 THEN Digit[n + 1]
    ELSE toString(n \div 10) \o Digit[(n % 10) + 1]

\* the value parseInt and Date parsing give for text that is no number / date
NaN == -1

\* parseInt(s): the number whose decimal string s is, NaN for any other text
ParseInt(s) ==
    IF \E n \in 0..MaxNum : toString(n) = s
    THEN CHOOSE n \in 0..MaxNum : toString(n) = s
    ELSE NaN

\* (parseInt(s) + 1).toString()
IncrementCount(s) ==
    IF ParseInt(s) = NaN THEN "NaN" ELSE toString(ParseInt(s) + 1)

\* new Date(t).toISOString(): the timestamp text of clock value t
ISO(t) == "T" \o toString(t)

\* new Date(s).getTime(): NaN (Invalid Date) for text that is no timestamp
DateParse(s) ==
    IF \E t \in 0..MaxNum : ISO(t) = s
    THEN CHOOSE t \in 0..MaxNum : ISO(t) = s
    ELSE NaN

\* the CSV writer's String(b) of a boolean
CsvBool(b) == IF b THEN "true" ELSE "false"

(***************************************************************************)
(* generateShortCode                                                       *)
(***************************************************************************)
chars == << "a", "b", "c", "d", "e", "f", "g", "h", "i", "j", "k", "l", "m",
            "n", "o", "p", "q", "r", "s", "t", "u", "v", "w", "x", "y", "z",
            "A", "B", "C", "D", "E", "F", "G", "H", "I", "J", "K", "L", "M",
            "N", "O", "P", "Q", "R", "S", "T", "U", "V", "W", "X", "Y", "Z",
            "0", "1", "2", "3", "4", "5", "6", "7", "8", "9" >>

\* generateShortCode(length = 6)
CodeLength == 6

\* Values of Math.floor(Math.random() * chars.length) the model draws.
RandIdx == {0, 1, 61}

\* The draws of one generateShortCode call: the first length-1 draws give 0,
\* the last one any value of RandIdx.
Draws == { [i \in 1..CodeLength |-> IF i < CodeLength THEN 0 ELSE d] : d \in RandIdx }

RECURSIVE CodeFrom(_, _)
CodeFrom(draws, i) ==
    IF i = 0 THEN "" ELSE CodeFrom(draws, i - 1) \o chars[draws[i] + 1]

\* result += chars.charAt(Math.floor(Math.random() * chars.length)), length times
generateShortCode(draws) == CodeFrom(draws, Len(draws))

CodeSpace == { generateShortCode(d) : d \in Draws }

(***************************************************************************)
(* Request inputs.                                                         *)
(***************************************************************************)
Users == {"admin-1", "user-7"}

\* req.body of POST /api/links; a field the client leaves out is ""
CreateBodies ==
    { [original_url |-> "https://example.com", title |-> "", description |-> "",
       campaign_id |-> "", domain_id |-> "", is_cloaked |-> FALSE,
       cloak_title |-> "", cloak_description |-> "", password |-> "",
       expires_at |-> ""],
      [original_url |-> "https://shop.example/sale", title |-> "Sale", description |-> "",
       campaign_id |-> "campaign-1", domain_id |-> "", is_cloaked |-> TRUE,
       cloak_title |-> "Hi", cloak_description |-> "", password |-> "secret",
       expires_at |-> ISO(StartTime)] }

\* the authenticated user (req.user.id) and the body of one creation request
CreateRequests ==
    { [user |-> IF b.password = "" THEN "admin-1" ELSE "user-7", body |-> b] :
        b \in CreateBodies }

\* creation requests whose body has no original_url, or one that is no URL
BadUrlRequests ==
    { [user |-> "admin-1",
       body |-> [original_url |-> u, title |-> "", description |-> "",
                 campaign_id |-> "", domain_id |-> "", is_cloaked |-> FALSE,
                 cloak_title |-> "", cloak_description |-> "", password |-> "",
                 expires_at |-> ""]] : u \in {"", "not a url"} }

\* req.ip and the headers of one visit
Visitors ==
    { [ip |-> "10.0.0.1", user_agent |-> "", referer |-> ""],
      [ip |-> "10.0.0.2", user_agent |-> "Mozilla/5.0 (iPhone)", referer |-> "https://ref.example"] }

\* UAParser(user-agent): device.type, browser.name, os.name ("" is undefined)
UAParser(ua) ==
    IF ua = "Mozilla/5.0 (iPhone)"
    THEN [device |-> "mobile", browser |-> "Mobile Safari", os |-> "iOS"]
    ELSE [device |-> "", browser |-> "", os |-> ""]

\* Math.random().toString(36).substr(2, 9)
RandomSuffix == {"k3x9p0q1z"}

\* x || y on strings
OrElse(x, y) == IF x = "" THEN y ELSE x

(***************************************************************************)
(* The link table the server finds on disk when it starts                  *)
(* (initializeDataFiles keeps an existing links.csv).                      *)
(***************************************************************************)
SeedLink(n, user, code, cloaked, expires, active, count) ==
    [id |-> "link-" \o toString(n), user_id |-> user,
     original_url |-> "https://seed.example/" \o toString(n), short_code |-> code,
     title |-> "", description |-> "", campaign_id |-> "", domain_id |-> "",
     is_cloaked |-> CsvBool(cloaked), cloak_title |-> "", cloak_description |-> "",
     password_hash |-> "", expires_at |-> expires, is_active |-> CsvBool(active),
     click_count |-> toString(count), created_at |-> ISO(n), updated_at |-> ISO(n)]

Code(d) == generateShortCode([i \in 1..CodeLength |-> IF i < CodeLength THEN 0 ELSE d])

SeedTables ==
    { << SeedLink(0, "admin-1", Code(0), FALSE, "", TRUE, 0) >>,
      << SeedLink(0, "admin-1", Code(0), FALSE, ISO(StartTime), TRUE, 0),
         SeedLink(1, "user-7", Code(1), TRUE, ISO(0), FALSE, 0) >>,
      << SeedLink(0, "user-7", Code(0), TRUE, ISO(0), TRUE, 0) >> }

(***************************************************************************)
(* State.                                                                  *)
(***************************************************************************)
\* a response that carries neither a Location header nor a page
NoContent == [location |-> "", html |-> << >>, json |-> << >>]

VARIABLES
    links,      \* rows of links.csv, in file order
    clicks,     \* rows of clicks.csv, in file order
    now,        \* Date.now()
    kind,       \* kind[r]: "none", "create" or "resolve"
    pc,         \* pc[r]: the store operation request r is awaiting
    shortCode,  \* resolve: req.params.shortCode
    body,       \* create: <<req.body>> while bcrypt.hash is awaited
    link,       \* resolve: <<the row found by the lookup>> (const link)
    record,     \* <<clickRecord>> or <<newLink>>
    data,       \* rows loaded and modified, awaiting writeCSV (existingData, allLinks)
    status,     \* status[r]: HTTP status of the response, 0 while none was sent
    target,     \* resolve: the id of the row found by the lookup, kept after the response
    reqUser,    \* create, analytics: req.user.id, set by authenticateToken
    sent,       \* sent[r]: what the response carries
    appended    \* appended[r]: the writeCSV(clicks) of request r has completed

vars == <<links, clicks, now, kind, pc, shortCode, body, link, record, data, status, target, reqUser, sent, appended>>

Init ==
    /\ links \in SeedTables
    /\ clicks = << >>
    /\ now = StartTime
    /\ kind = [r \in Slot |-> "none"]
    /\ pc = [r \in Slot |-> "idle"]
    /\ shortCode = [r \in Slot |-> ""]
    /\ body = [r \in Slot |-> << >>]
    /\ link = [r \in Slot |-> << >>]
    /\ record = [r \in Slot |-> << >>]
    /\ data = [r \in Slot |-> << >>]
    /\ status = [r \in Slot |-> 0]
    /\ target = [r \in Slot |-> ""]
    /\ reqUser = [r \in Slot |-> ""]
    /\ sent = [r \in Slot |-> NoContent]
    /\ appended = [r \in Slot |-> FALSE]

\* A creation is inside its do-while loop: the loop is synchronous code, so
\* while it runs no other callback of the process does.
Blocked == \E r \in Slot : pc[r] = "spin"

\* request r is awaiting the operation `at` and the event loop is free to run it
At(r, at) == pc[r] = at /\ ~Blocked

\* requests arrive in the order of their numbers
MayArrive(r) == At(r, "idle") /\ (IF r = 1 THEN TRUE ELSE pc[r - 1] # "idle")

\* res.status(s).send(...): the response ends the handler and its locals
Respond(r, s, content) ==
    /\ status' = [status EXCEPT ![r] = s]
    /\ sent' = [sent EXCEPT ![r] = content]
    /\ pc' = [pc EXCEPT ![r] = "done"]
    /\ link' = [link EXCEPT ![r] = << >>]
    /\ record' = [record EXCEPT ![r] = << >>]
    /\ data' = [data EXCEPT ![r] = << >>]

(***************************************************************************)
(* GET /:shortCode                                                         *)
(***************************************************************************)
\* A lookup that forgets the is_active test (a mutant of FindLink).
FindLinkAnyActive(rows, code) ==
    IF \E i \in 1..Len(rows) : rows[i].short_code = code
    THEN CHOOSE i \in 1..Len(rows) :
            rows[i].short_code = code /\ \A j \in 1..(i - 1) : rows[j].short_code # code
    ELSE 0

\* links.find(l => l.short_code === shortCode && l.is_active === 'true'):
\* the index of the first such row, 0 when there is none
FindLink(rows, code) ==
    IF \E i \in 1..Len(rows) : rows[i].short_code = code /\ rows[i].is_active = "true"
    THEN CHOOSE i \in 1..Len(rows) :
            /\ rows[i].short_code = code /\ rows[i].is_active = "true"
            /\ \A j \in 1..(i - 1) :
                 ~(rows[j].short_code = code /\ rows[j].is_active = "true")
    ELSE 0

\* An expiry check with the comparison turned around (a mutant of IsExpired).
IsExpiredReversed(l, t) ==
    /\ l.expires_at # ""
    /\ DateParse(l.expires_at) # NaN
    /\ DateParse(l.expires_at) > t

\* link.expires_at && new Date(link.expires_at) < new Date()
IsExpired(l, t) ==
    /\ l.expires_at # ""
    /\ DateParse(l.expires_at) # NaN
    /\ DateParse(l.expires_at) < t

\* A clickRecord that does not copy the link's campaign (a mutant of
\* ClickRecord).
ClickRecordNoCampaign(l, visitor, suffix, t) ==
    [id |-> "click-" \o toString(t) \o "-" \o suffix,
     link_id |-> l.id,
     campaign_id |-> "",
     ip_address |-> OrElse(visitor.ip, "unknown"),
     user_agent |-> OrElse(visitor.user_agent, ""),
     referer |-> OrElse(visitor.referer, ""),
     country |-> "", city |-> "",
     device_type |-> OrElse(UAParser(visitor.user_agent).device, "desktop"),
     browser |-> OrElse(UAParser(visitor.user_agent).browser, "unknown"),
     os |-> OrElse(UAParser(visitor.user_agent).os, "unknown"),
     created_at |-> ISO(t)]

\* the clickRecord of a visit
ClickRecord(l, visitor, suffix, t) ==
    [id |-> "click-" \o toString(t) \o "-" \o suffix,
     link_id |-> l.id,
     campaign_id |-> OrElse(l.campaign_id, ""),
     ip_address |-> OrElse(visitor.ip, "unknown"),
     user_agent |-> OrElse(visitor.user_agent, ""),
     referer |-> OrElse(visitor.referer, ""),
     country |-> "", city |-> "",
     device_type |-> OrElse(UAParser(visitor.user_agent).device, "desktop"),
     browser |-> OrElse(UAParser(visitor.user_agent).browser, "unknown"),
     os |-> OrElse(UAParser(visitor.user_agent).os, "unknown"),
     created_at |-> ISO(t)]

\* The request arrives, readCSV(links) completes, then lookup, expiry check and
\* the construction of clickRecord; appendToCSV starts its readCSV(clicks).
ResolveLookup(r) ==
    /\ MayArrive(r)
    /\ \E c \in CodeSpace, visitor \in Visitors, suffix \in RandomSuffix :
        LET i == FindLink(links, c) IN
        /\ kind' = [kind EXCEPT ![r] = "resolve"]
        /\ shortCode' = [shortCode EXCEPT ![r] = c]
        /\ IF i = 0
           THEN /\ Respond(r, 404, NoContent)
                /\ UNCHANGED target
           ELSE IF IsExpired(links[i], now)
           THEN /\ Respond(r, 410, NoContent)
                /\ UNCHANGED target
           ELSE /\ link' = [link EXCEPT ![r] = << links[i] >>]
                /\ record' = [record EXCEPT ![r] =
                                << ClickRecord(links[i], visitor, suffix, now) >>]
                /\ target' = [target EXCEPT ![r] = links[i].id]
                /\ pc' = [pc EXCEPT ![r] = "clickLoad"]
                /\ UNCHANGED <<data, status, sent>>
    /\ UNCHANGED <<links, clicks, now, body, reqUser, appended>>

\* A handler that answers without awaiting appendToCSV (a mutant of ClickLoad).
ClickLoadUnawaited(r) ==
    /\ At(r, "clickLoad")
    /\ Respond(r, 302, NoContent)
    /\ UNCHANGED <<links, clicks, now, kind, shortCode, body, target, reqUser, appended>>

\* appendToCSV(FILES.clicks): readCSV completes, existingData.push(record)
ClickLoad(r) ==
    /\ At(r, "clickLoad")
    /\ data' = [data EXCEPT ![r] = Append(clicks, record[r][1])]
    /\ pc' = [pc EXCEPT ![r] = "clickWrite"]
    /\ UNCHANGED <<links, clicks, now, kind, shortCode, body, link, record, status, target, reqUser, sent, appended>>

\* appendToCSV(FILES.clicks): writeCSV completes; readCSV(links) starts
ClickWrite(r) ==
    /\ At(r, "clickWrite")
    /\ clicks' = data[r]
    /\ appended' = [appended EXCEPT ![r] = TRUE]
    /\ data' = [data EXCEPT ![r] = << >>]
    /\ pc' = [pc EXCEPT ![r] = "countLoad"]
    /\ UNCHANGED <<links, now, kind, shortCode, body, link, record, status, target, reqUser, sent>>

\* allLinks.findIndex(l => l.id === link.id): 0 stands for -1
FindIndexById(rows, id) ==
    IF \E i \in 1..Len(rows) : rows[i].id = id
    THEN CHOOSE i \in 1..Len(rows) :
            rows[i].id = id /\ \A j \in 1..(i - 1) : rows[j].id # id
    ELSE 0

\* allLinks[linkIndex].click_count = ...; allLinks[linkIndex].updated_at = ...
CountUpdate(rows, i, t) ==
    [rows EXCEPT ![i] = [@ EXCEPT !.click_count = IncrementCount(@),
                                  !.updated_at = ISO(t)]]

\* A resolver that never takes the cloaking branch (a mutant of ResponseStatus).
AlwaysRedirect(l) == 302

\* A resolver that asks for the password of a protected link (a mutant of
\* ResponseStatus).
PasswordChallenge(l) ==
    IF l.password_hash # "" THEN 401 ELSE IF l.is_cloaked = "true" THEN 200 ELSE 302

\* link.is_cloaked === 'true' ? res.send(cloakedHtml) : res.redirect(original_url)
ResponseStatus(l) == IF l.is_cloaked = "true" THEN 200 ELSE 302

\* cloakedHtml by what it interpolates (<title>, <meta name="description">,
\* window.location.href), or the Location header of the redirect
ResponseContent(l) ==
    IF l.is_cloaked = "true"
    THEN [location |-> "",
          html |-> << OrElse(l.cloak_title, "Redirecting..."),
                      OrElse(l.cloak_description, "Please wait while we redirect you..."),
                      l.original_url >>,
          json |-> << >>]
    ELSE [location |-> l.original_url, html |-> << >>, json |-> << >>]

\* readCSV(links) of the counter update completes; the row is modified and
\* writeCSV starts, or the row is gone and the response is sent.
CountLoad(r) ==
    /\ At(r, "countLoad")
    /\ LET i == FindIndexById(links, link[r][1].id) IN
        IF i # 0
        THEN /\ data' = [data EXCEPT ![r] = CountUpdate(links, i, now)]
             /\ pc' = [pc EXCEPT ![r] = "countWrite"]
             /\ UNCHANGED <<link, record, status, sent>>
        ELSE Respond(r, ResponseStatus(link[r][1]), ResponseContent(link[r][1]))
    /\ UNCHANGED <<links, clicks, now, kind, shortCode, body, target, reqUser, appended>>

\* A counter update that starts over instead of answering (a mutant of
\* CountWrite).
CountWriteRetried(r) ==
    /\ At(r, "countWrite")
    /\ data' = [data EXCEPT ![r] = << >>]
    /\ pc' = [pc EXCEPT ![r] = "countLoad"]
    /\ UNCHANGED <<links, clicks, now, kind, shortCode, body, link, record, status, target, reqUser, sent, appended>>

\* writeCSV(links) of the counter update completes; the response is sent
CountWrite(r) ==
    /\ At(r, "countWrite")
    /\ links' = data[r]
    /\ Respond(r, ResponseStatus(link[r][1]), ResponseContent(link[r][1]))
    /\ UNCHANGED <<clicks, now, kind, shortCode, body, target, reqUser, appended>>

(***************************************************************************)
(* POST /api/links                                                         *)
(***************************************************************************)
\* A loop condition that never finds the code taken (a mutant of CodeInUse).
NeverInUse(rows, code) == FALSE

\* links.find(link => link.short_code === short_code)
CodeInUse(rows, code) == \E i \in 1..Len(rows) : rows[i].short_code = code

\* bcrypt.hash(password, 10)
BcryptHash(password) == "$2a$10$" \o password

\* A newLink that is owned by nobody and starts inactive with one click
\* (a mutant of NewLink).
NewLinkUnowned(user, b, code, t, hash, t2) ==
    [id |-> "link-" \o toString(t), user_id |-> "", original_url |-> b.original_url,
     short_code |-> code, title |-> b.title, description |-> b.description,
     campaign_id |-> b.campaign_id, domain_id |-> b.domain_id,
     is_cloaked |-> CsvBool(b.is_cloaked), cloak_title |-> b.cloak_title,
     cloak_description |-> b.cloak_description, password_hash |-> hash,
     expires_at |-> b.expires_at, is_active |-> CsvBool(FALSE),
     click_count |-> toString(1), created_at |-> ISO(t2), updated_at |-> ISO(t2)]

\* the newLink of a creation; the CSV writer turns every value into text.
\* t is Date.now() when the object literal starts (the id), hash the awaited
\* bcrypt hash, t2 is Date.now() when the literal goes on after that await.
NewLink(user, b, code, t, hash, t2) ==
    [id |-> "link-" \o toString(t),
     user_id |-> user,
     original_url |-> b.original_url,
     short_code |-> code,
     title |-> OrElse(b.title, ""),
     description |-> OrElse(b.description, ""),
     campaign_id |-> OrElse(b.campaign_id, ""),
     domain_id |-> OrElse(b.domain_id, ""),
     is_cloaked |-> CsvBool(b.is_cloaked),
     cloak_title |-> OrElse(b.cloak_title, ""),
     cloak_description |-> OrElse(b.cloak_description, ""),
     password_hash |-> hash,
     expires_at |-> OrElse(b.expires_at, ""),
     is_active |-> CsvBool(TRUE),
     click_count |-> toString(0),
     created_at |-> ISO(t2),
     updated_at |-> ISO(t2)]

\* every code generateShortCode can return is in the loaded rows
AllCodesInUse(rows) == \A d \in Draws : CodeInUse(rows, generateShortCode(d))

\* The request arrives, readCSV(links) completes, the do-while loop ends with a
\* code the loaded rows do not hold and newLink is built up to password_hash
\* (its id from Date.now()).  Without a password the literal is completed and
\* appendToCSV starts its readCSV(links); with one, bcrypt.hash is awaited.
CreateScanOf(r, requests) ==
    /\ MayArrive(r)
    /\ \E rq \in requests, d \in Draws :
        LET short_code == generateShortCode(d) IN
        /\ ~CodeInUse(links, short_code)
        /\ kind' = [kind EXCEPT ![r] = "create"]
        /\ reqUser' = [reqUser EXCEPT ![r] = rq.user]
        /\ record' = [record EXCEPT ![r] =
                        << NewLink(rq.user, rq.body, short_code, now, "", now) >>]
        /\ IF rq.body.password # ""
           THEN /\ body' = [body EXCEPT ![r] = << rq.body >>]
                /\ pc' = [pc EXCEPT ![r] = "hash"]
           ELSE /\ pc' = [pc EXCEPT ![r] = "linkLoad"]
                /\ UNCHANGED body
    /\ UNCHANGED <<links, clicks, now, shortCode, link, data, status, target, sent, appended>>

CreateScan(r) == CreateScanOf(r, CreateRequests)

\* bcrypt.hash completes; the rest of the literal (password_hash, created_at,
\* updated_at) is evaluated and appendToCSV starts its readCSV(links)
CreateHash(r) ==
    /\ At(r, "hash")
    /\ record' = [record EXCEPT ![r] =
                    << [record[r][1] EXCEPT !.password_hash = BcryptHash(body[r][1].password),
                                            !.created_at = ISO(now),
                                            !.updated_at = ISO(now)] >>]
    /\ body' = [body EXCEPT ![r] = << >>]
    /\ pc' = [pc EXCEPT ![r] = "linkLoad"]
    /\ UNCHANGED <<links, clicks, now, kind, shortCode, link, data, status, target, reqUser, sent, appended>>

\* The request arrives, readCSV(links) completes and every code the generator
\* returns is in the loaded rows: the do-while loop does not end.
CreateSpin(r) ==
    /\ MayArrive(r)
    /\ AllCodesInUse(links)
    /\ kind' = [kind EXCEPT ![r] = "create"]
    /\ \E rq \in CreateRequests : reqUser' = [reqUser EXCEPT ![r] = rq.user]
    /\ pc' = [pc EXCEPT ![r] = "spin"]
    /\ UNCHANGED <<links, clicks, now, shortCode, body, link, record, data, status, target, sent, appended>>

\* An append that puts the record in front of the loaded rows (a mutant of
\* LinkLoad).
LinkLoadUnshift(r) ==
    /\ At(r, "linkLoad")
    /\ data' = [data EXCEPT ![r] = << record[r][1] >> \o links]
    /\ pc' = [pc EXCEPT ![r] = "linkWrite"]
    /\ UNCHANGED <<links, clicks, now, kind, shortCode, body, link, record, status, target, reqUser, sent, appended>>

\* appendToCSV(FILES.links): readCSV completes, existingData.push(record)
LinkLoad(r) ==
    /\ At(r, "linkLoad")
    /\ data' = [data EXCEPT ![r] = Append(links, record[r][1])]
    /\ pc' = [pc EXCEPT ![r] = "linkWrite"]
    /\ UNCHANGED <<links, clicks, now, kind, shortCode, body, link, record, status, target, reqUser, sent, appended>>

\* appendToCSV(FILES.links): writeCSV completes; res.json(newLink)
LinkWrite(r) ==
    /\ At(r, "linkWrite")
    /\ links' = data[r]
    /\ Respond(r, 200, [NoContent EXCEPT !.json = record[r]])
    /\ UNCHANGED <<clicks, now, kind, shortCode, body, target, reqUser, appended>>

(***************************************************************************)
(* GET /api/analytics                                                      *)
(***************************************************************************)
\* topLinks keeps the first TopCount links: .slice(0, 5)
TopCount == 5

\* parseInt(b.click_count) - parseInt(a.click_count) < 0: a sorts before b.
\* With a count that is no number the difference is NaN and the order is kept.
SortsBefore(a, b) ==
    /\ ParseInt(a.click_count) # NaN /\ ParseInt(b.click_count) # NaN
    /\ ParseInt(a.click_count) > ParseInt(b.click_count)

\* the sorted rows with row x put in: before the first row it sorts before
InsertSorted(sorted, x) ==
    LET before == { i \in 1..Len(sorted) : SortsBefore(x, sorted[i]) }
        at == IF before = {} THEN Len(sorted) + 1
              ELSE CHOOSE i \in before : \A j \in before : i <= j
    IN  SubSeq(sorted, 1, at - 1) \o << x >> \o SubSeq(sorted, at, Len(sorted))

\* Array.prototype.sort with that comparator (a stable sort) of the first n rows
RECURSIVE SortByClicks(_, _)
SortByClicks(rows, n) ==
    IF n = 0 THEN << >> ELSE InsertSorted(SortByClicks(rows, n - 1), rows[n])

\* A reduce that sets acc[key] = 1 whether or not the key is present (a
\* mutant of Tally).
TallyOverwrites(keys, n) ==
    LET firsts == SelectSeq([i \in 1..n |-> i],
                            LAMBDA i : \A j \in 1..(i - 1) : keys[j] # keys[i])
    IN  [k \in 1..Len(firsts) |-> [key |-> keys[firsts[k]], clicks |-> 1]]

\* A reduce that never finds the key present (a mutant of Tally).
TallyUnmerged(keys, n) == [i \in 1..n |-> [key |-> keys[i], clicks |-> 1]]

\* reduce((acc, click) => { acc[key] = (acc[key] || 0) + 1 }, {}) over the first
\* n keys, then Object.entries: the keys in the order of their first occurrence
RECURSIVE Tally(_, _)
Tally(keys, n) ==
    IF n = 0 THEN << >>
    ELSE LET acc == Tally(keys, n - 1) IN
         IF \E i \in 1..Len(acc) : acc[i].key = keys[n]
         THEN [i \in 1..Len(acc) |->
                 IF acc[i].key = keys[n] THEN [acc[i] EXCEPT !.clicks = @ + 1] ELSE acc[i]]
         ELSE Append(acc, [key |-> keys[n], clicks |-> 1])

\* the clock value at which the calendar day of the timestamps changes
DayLength == MaxTime

\* new Date(created_at).toISOString().split('T')[0], for the created_at the
\* resolver writes (always a timestamp)
DateOf(text) == "D" \o toString(DateParse(text) \div DayLength)

\* A count that does not merge equal addresses (a mutant of UniqueClicks).
CountEveryClick(userClicks) == Len(userClicks)

\* new Set(userClicks.map(click => click.ip_address)).size
UniqueClicks(userClicks) ==
    Cardinality({ userClicks[i].ip_address : i \in 1..Len(userClicks) })

\* A topLinks that slices and maps without sorting (a mutant of TopLinks).
TopLinksUnsorted(userLinks) ==
    [i \in 1..(IF Len(userLinks) < TopCount THEN Len(userLinks) ELSE TopCount) |->
        [short_code |-> userLinks[i].short_code,
         title |-> OrElse(userLinks[i].title, userLinks[i].original_url),
         clicks |-> ParseInt(userLinks[i].click_count)]]

\* userLinks.sort(...).slice(0, 5).map(link => ({ short_code, title, clicks }))
TopLinks(userLinks) ==
    LET sorted == SortByClicks(userLinks, Len(userLinks))
        top == SubSeq(sorted, 1, IF Len(sorted) < TopCount THEN Len(sorted) ELSE TopCount)
    IN  [i \in 1..Len(top) |->
            [short_code |-> top[i].short_code,
             title |-> OrElse(top[i].title, top[i].original_url),
             clicks |-> ParseInt(top[i].click_count)]]

\* the summary res.json sends, from the rows of links.csv and clicks.csv
Aggregate(rows, clickRows, userId) ==
    LET userLinks == SelectSeq(rows, LAMBDA l : l.user_id = userId)
        userLinkIds == { userLinks[i].id : i \in 1..Len(userLinks) }
        userClicks == SelectSeq(clickRows, LAMBDA c : c.link_id \in userLinkIds)
        devices == Tally([i \in 1..Len(userClicks) |-> userClicks[i].device_type],
                         Len(userClicks))
        days == Tally([i \in 1..Len(userClicks) |-> DateOf(userClicks[i].created_at)],
                      Len(userClicks))
    IN  [totalClicks |-> Len(userClicks),
         uniqueClicks |-> UniqueClicks(userClicks),
         topLinks |-> TopLinks(userLinks),
         deviceTypes |-> [i \in 1..Len(devices) |->
                            [device |-> devices[i].key, clicks |-> devices[i].clicks]],
         clicksByDay |-> [i \in 1..Len(days) |->
                            [date |-> days[i].key, clicks |-> days[i].clicks]]]

\* The request arrives and readCSV(links) completes; readCSV(clicks) starts.
AnalyticsLinks(r) ==
    /\ MayArrive(r)
    /\ kind' = [kind EXCEPT ![r] = "analytics"]
    /\ \E u \in Users : reqUser' = [reqUser EXCEPT ![r] = u]
    /\ data' = [data EXCEPT ![r] = links]
    /\ pc' = [pc EXCEPT ![r] = "readClicks"]
    /\ UNCHANGED <<links, clicks, now, shortCode, body, link, record, status, target, sent, appended>>

\* An aggregator that empties the click log it has read (a mutant of
\* AnalyticsClicks).
AnalyticsClicksDraining(r) ==
    /\ At(r, "readClicks")
    /\ record' = [record EXCEPT ![r] = << Aggregate(data[r], clicks, reqUser[r]) >>]
    /\ clicks' = << >>
    /\ data' = [data EXCEPT ![r] = << >>]
    /\ pc' = [pc EXCEPT ![r] = "readCampaigns"]
    /\ UNCHANGED <<links, now, kind, shortCode, body, link, status, target, reqUser, sent, appended>>

\* readCSV(clicks) completes; readCSV(campaigns) starts.  The summary depends
\* on the two loaded tables only, so it is computed here and sent when
\* readCSV(campaigns) has completed.
AnalyticsClicks(r) ==
    /\ At(r, "readClicks")
    /\ record' = [record EXCEPT ![r] = << Aggregate(data[r], clicks, reqUser[r]) >>]
    /\ data' = [data EXCEPT ![r] = << >>]
    /\ pc' = [pc EXCEPT ![r] = "readCampaigns"]
    /\ UNCHANGED <<links, clicks, now, kind, shortCode, body, link, status, target, reqUser, sent, appended>>

\* readCSV(campaigns) completes; res.json(summary)
AnalyticsCampaigns(r) ==
    /\ At(r, "readCampaigns")
    /\ Respond(r, 200, [NoContent EXCEPT !.json = record[r]])
    /\ UNCHANGED <<links, clicks, now, kind, shortCode, body, target, reqUser, appended>>

(***************************************************************************)
(* Failure of the awaited store operation, and the clock.                  *)
(***************************************************************************)
Awaiting == {"clickLoad", "clickWrite", "countLoad", "countWrite", "linkLoad", "linkWrite",
             "readClicks", "readCampaigns"}

\* A handler that notes the rejection and goes on (a mutant of StoreFails).
StoreFailsGoesOn(r) ==
    /\ pc[r] \in Awaiting /\ ~Blocked
    /\ status' = [status EXCEPT ![r] = 500]
    /\ UNCHANGED <<links, clicks, now, kind, pc, shortCode, body, link, record, data, target, reqUser, sent, appended>>

\* the awaited readCSV / writeCSV rejects: catch (error) { res.status(500) }
StoreFails(r) ==
    /\ pc[r] \in Awaiting /\ ~Blocked
    /\ Respond(r, 500, NoContent)
    /\ UNCHANGED <<links, clicks, now, kind, shortCode, body, target, reqUser, appended>>

\* the first readCSV of a request of one of these kinds rejects
FirstReadFailsOf(r, kinds) ==
    /\ MayArrive(r)
    /\ \E k \in kinds : kind' = [kind EXCEPT ![r] = k]
    /\ Respond(r, 500, NoContent)
    /\ UNCHANGED <<links, clicks, now, shortCode, body, target, reqUser, appended>>

FirstReadFails(r) == FirstReadFailsOf(r, {"create", "resolve"})

Tick ==
    /\ now < MaxTime
    /\ now' = now + 1
    /\ UNCHANGED <<links, clicks, kind, pc, shortCode, body, link, record, data, status, target, reqUser, sent, appended>>

Next ==
    \/ \E r \in Req : ResolveLookup(r)
    \/ \E r \in Req : ClickLoad(r)
    \/ \E r \in Req : ClickWrite(r)
    \/ \E r \in Req : CountLoad(r)
    \/ \E r \in Req : CountWrite(r)
    \/ \E r \in Req : CreateScan(r)
    \/ \E r \in Req : CreateHash(r)
    \/ \E r \in Req : CreateSpin(r)
    \/ \E r \in Req : LinkLoad(r)
    \/ \E r \in Req : LinkWrite(r)
    \/ \E r \in Req : StoreFails(r)
    \/ \E r \in Req : FirstReadFails(r)
    \/ Tick

Spec == Init /\ [][Next]_vars

\* a store operation that resolve request r awaits settles: it completes or
\* it rejects
ResolveSettles(r) ==
    \/ ClickLoad(r)
    \/ ClickWrite(r)
    \/ CountLoad(r)
    \/ CountWrite(r)
    \/ kind[r] = "resolve" /\ StoreFails(r)

\* Resolves and creations that interleave at their awaits, at one clock value,
\* where the store operations of the resolves may fail.
FairNext ==
    \/ \E r \in Req : ResolveLookup(r)
    \/ \E r \in Req : ResolveSettles(r)
    \/ \E r \in Req : CreateScan(r)
    \/ \E r \in Req : CreateHash(r)
    \/ \E r \in Req : CreateSpin(r)
    \/ \E r \in Req : LinkLoad(r)
    \/ \E r \in Req : LinkWrite(r)

\* Those steps under fair scheduling: an awaited readCSV or writeCSV of a
\* resolve settles, and its continuation runs, once the event loop is free.
SpecFair == Init /\ [][FairNext]_vars /\ \A r \in Req : WF_vars(ResolveSettles(r))

\* no request is in flight
Quiescent == \A r \in Slot : pc[r] \in {"idle", "done"}

\* The run in which the requests come one after another and the store works:
\* a request arrives only when every earlier one has been answered.
SerialNext ==
    \/ \E r \in Slot : Quiescent /\ ResolveLookup(r)
    \/ \E r \in Slot : ClickLoad(r)
    \/ \E r \in Slot : ClickWrite(r)
    \/ \E r \in Slot : CountLoad(r)
    \/ \E r \in Slot : CountWrite(r)
    \/ \E r \in Slot : Quiescent /\ CreateScanOf(r, CreateRequests \cup BadUrlRequests)
    \/ \E r \in Slot : CreateHash(r)
    \/ \E r \in Slot : Quiescent /\ CreateSpin(r)
    \/ \E r \in Slot : LinkLoad(r)
    \/ \E r \in Slot : LinkWrite(r)
    \/ \E r \in Slot : Quiescent /\ AnalyticsLinks(r)
    \/ \E r \in Slot : AnalyticsClicks(r)
    \/ \E r \in Slot : AnalyticsCampaigns(r)
    \/ Tick

SpecSerial == Init /\ [][SerialNext]_vars

\* The run in which the requests of Req come one after another, of all three
\* kinds, and any awaited store operation may fail.
FaultyNext ==
    \/ \E r \in Req : Quiescent /\ ResolveLookup(r)
    \/ \E r \in Req : ClickLoad(r)
    \/ \E r \in Req : ClickWrite(r)
    \/ \E r \in Req : CountLoad(r)
    \/ \E r \in Req : CountWrite(r)
    \/ \E r \in Req : Quiescent /\ CreateScan(r)
    \/ \E r \in Req : CreateHash(r)
    \/ \E r \in Req : Quiescent /\ CreateSpin(r)
    \/ \E r \in Req : LinkLoad(r)
    \/ \E r \in Req : LinkWrite(r)
    \/ \E r \in Req : Quiescent /\ AnalyticsLinks(r)
    \/ \E r \in Req : AnalyticsClicks(r)
    \/ \E r \in Req : AnalyticsCampaigns(r)
    \/ \E r \in Req : StoreFails(r)
    \/ \E r \in Req : Quiescent /\ FirstReadFailsOf(r, {"create", "resolve", "analytics"})
    \/ Tick

SpecFaulty == Init /\ [][FaultyNext]_vars

\* Creations and resolves of all the requests of Slot in flight at once, at
\* one clock value and with a store that works.
CrowdNext ==
    \/ \E r \in Slot : ResolveLookup(r)
    \/ \E r \in Slot : ClickLoad(r)
    \/ \E r \in Slot : ClickWrite(r)
    \/ \E r \in Slot : CountLoad(r)
    \/ \E r \in Slot : CountWrite(r)
    \/ \E r \in Slot : CreateScan(r)
    \/ \E r \in Slot : CreateHash(r)
    \/ \E r \in Slot : LinkLoad(r)
    \/ \E r \in Slot : LinkWrite(r)

SpecCrowd == Init /\ [][CrowdNext]_vars

(***************************************************************************)
(* The analytics handler on store states drawn from bounded sets: link     *)
(* tables of up to MaxRows rows with any click_count of DrawnCounts, and   *)
(* click tables of up to MaxClicks rows over a link table of two owners.   *)
(***************************************************************************)
MaxRows == 7
MaxClicks == 3
DrawnCounts == 0..2

\* row k of a drawn link table: the second row is user-7's, the others are
\* admin-1's; the rows at odd places have a title
DrawnLink(k, count) ==
    [SeedLink(k - 1, IF k = 2 THEN "user-7" ELSE "admin-1", Code(k - 1), FALSE, "", TRUE, count)
        EXCEPT !.title = IF k % 2 = 1 THEN "Title " \o toString(k) ELSE ""]

\* the link tables of up to maxRows rows
DrawnLinkTables(maxRows) ==
    UNION { { [k \in 1..n |-> DrawnLink(k, f[k])] : f \in [1..n -> DrawnCounts] } :
            n \in 0..maxRows }

\* the link table the drawn click tables go with
TwoOwners == << DrawnLink(1, 1), DrawnLink(2, 0) >>

\* the ClickRecords of visits to those two links, at the first and the last
\* clock value (two calendar days)
DrawnClicks ==
    { ClickRecord(TwoOwners[k], visitor, suffix, t) :
        k \in {1, 2}, visitor \in Visitors, suffix \in RandomSuffix, t \in {StartTime, MaxTime} }

\* the click tables of up to maxClicks rows
DrawnClickTables(maxClicks) == UNION { [1..n -> DrawnClicks] : n \in 0..maxClicks }

AggregateInit ==
    /\ \/ links \in DrawnLinkTables(MaxRows) /\ clicks = << >>
       \/ links = TwoOwners /\ clicks \in DrawnClickTables(MaxClicks)
    /\ now = StartTime
    /\ kind = [r \in Slot |-> "none"]
    /\ pc = [r \in Slot |-> "idle"]
    /\ shortCode = [r \in Slot |-> ""]
    /\ body = [r \in Slot |-> << >>]
    /\ link = [r \in Slot |-> << >>]
    /\ record = [r \in Slot |-> << >>]
    /\ data = [r \in Slot |-> << >>]
    /\ status = [r \in Slot |-> 0]
    /\ target = [r \in Slot |-> ""]
    /\ reqUser = [r \in Slot |-> ""]
    /\ sent = [r \in Slot |-> NoContent]
    /\ appended = [r \in Slot |-> FALSE]

\* one analytics request on the drawn store
AggregateNext ==
    \/ AnalyticsLinks(1)
    \/ AnalyticsClicks(1)
    \/ AnalyticsCampaigns(1)

SpecAggregate == AggregateInit /\ [][AggregateNext]_vars

(***************************************************************************)
(* Vocabulary of the properties.                                           *)
(***************************************************************************)
\* no store operation has failed
NoFailure == \A r \in Slot : status[r] # 500

\* count(clicks where link_id = id)
ClicksFor(id) == Cardinality({ i \in 1..Len(clicks) : clicks[i].link_id = id })

\* request q completes a writeCSV in this step
WritesClicks(q) == pc[q] = "clickWrite" /\ pc'[q] = "countLoad"
WritesCount(q) == pc[q] = "countWrite" /\ pc'[q] = "done" /\ status'[q] # 500
WritesNewLink(q) == pc[q] = "linkWrite" /\ pc'[q] = "done" /\ status'[q] # 500

\* the lookup of resolve request r completes in this step (its readCSV resolved)
LooksUp(r) == pc[r] = "idle" /\ kind'[r] = "resolve" /\ status'[r] # 500

(***************************************************************************)
(* C1.  In every reachable state the short_code values of all rows of the  *)
(* link table are pairwise distinct.                                       *)
(* The code breaks it: two creations scan the table before either inserts. *)
(***************************************************************************)
C1_ShortCodesDistinct ==
    \A i, j \in 1..Len(links) : i # j => links[i].short_code # links[j].short_code

(***************************************************************************)
(* C2.  At quiescence (no request in flight), every link's click_count     *)
(* equals the number of click rows whose link_id is the link's id.         *)
(* Stated for runs without any store failure; the code breaks it by lost   *)
(* updates of interleaved load-modify-rewrite cycles.                      *)
(***************************************************************************)
C2_CounterReconciled ==
    (Quiescent /\ NoFailure) =>
        \A i \in 1..Len(links) : ParseInt(links[i].click_count) = ClicksFor(links[i].id)

(***************************************************************************)
(* C3.  appendRow neither loses nor duplicates rows: when an appendToCSV   *)
(* completes its write on a table only appendToCSV writes to, the table is *)
(* the rows that were in it followed by the appended row.                  *)
(* The code breaks it: the write puts back the rows loaded earlier.        *)
(***************************************************************************)
C3_AppendKeepsRows ==
    [][ \A r \in Req :
          /\ WritesClicks(r) => clicks' = Append(clicks, record[r][1])
          /\ (WritesNewLink(r) /\ \A q \in Req : kind[q] # "resolve")
                => links' = Append(links, record[r][1]) ]_vars

\* request r is between the load and the rewrite of a cycle on the table
InCycle(r, table) ==
    IF table = "clicks" THEN pc[r] = "clickWrite"
    ELSE pc[r] \in {"countWrite", "linkWrite"}

(***************************************************************************)
(* C4.  Writes to a table are strictly serial: no two requests are at the  *)
(* same time between the load and the rewrite of a load-modify-rewrite     *)
(* cycle on the same table.                                                *)
(***************************************************************************)
C4_SerialWrites ==
    \A table \in {"clicks", "links"} : \A r, q \in Req :
        (InCycle(r, table) /\ InCycle(q, table)) => r = q

(***************************************************************************)
(* C5.  Between the two sub-writes of one recordClick (its click row is    *)
(* written, its link-table rewrite is not yet) no other request completes  *)
(* a write of a recordClick on the same link or of a link creation.        *)
(***************************************************************************)
C5_RecordClickAtomic ==
    [][ \A r, q \in Req :
          (r # q /\ pc[r] \in {"countLoad", "countWrite"}) =>
              /\ ~WritesNewLink(q)
              /\ target[q] = target[r] => ~(WritesClicks(q) \/ WritesCount(q)) ]_vars

\* no row of rows has short code c and is_active "true"
NoActiveMatch(rows, c) ==
    \A i \in 1..Len(rows) : rows[i].short_code = c => rows[i].is_active # "true"

(***************************************************************************)
(* C6.  When the lookup of a resolve request completes and the link table  *)
(* holds no row with the requested short code, or only rows whose          *)
(* is_active is not "true", the request ends at once with 404 and the step *)
(* leaves the link table and the click table as they were.                 *)
(***************************************************************************)
C6_NotFound ==
    [][ \A r \in Req :
          (LooksUp(r) /\ NoActiveMatch(links, shortCode'[r])) =>
              /\ status'[r] = 404 /\ pc'[r] = "done"
              /\ links' = links /\ clicks' = clicks ]_vars

\* a resolve of the short code of an inactive row has ended in 404
C6_Witness ==
    \E r \in Req :
        /\ kind[r] = "resolve" /\ status[r] = 404
        /\ \E i \in 1..Len(links) :
              links[i].short_code = shortCode[r] /\ links[i].is_active = "false"

\* the first active row with short code c has expires_at set to a time before t
FoundExpired(rows, c, t) ==
    \E i \in 1..Len(rows) :
        /\ rows[i].short_code = c /\ rows[i].is_active = "true"
        /\ \A j \in 1..(i - 1) : ~(rows[j].short_code = c /\ rows[j].is_active = "true")
        /\ \E e \in 0..(t - 1) : rows[i].expires_at = ISO(e)

(***************************************************************************)
(* C7.  When the lookup of a resolve request completes and the row it      *)
(* finds (the first active row with the short code) has expires_at set to  *)
(* a time before the current time, the request ends at once with 410; the  *)
(* step appends no click row and leaves the link table, so the link's      *)
(* click_count, as it was.                                                 *)
(***************************************************************************)
C7_Expired ==
    [][ \A r \in Req :
          (LooksUp(r) /\ FoundExpired(links, shortCode'[r], now)) =>
              /\ status'[r] = 410 /\ pc'[r] = "done"
              /\ links' = links /\ clicks' = clicks ]_vars

\* a resolve of a link that expired while the server ran has ended in 410,
\* with no click row for the link and its click_count still "0"
C7_Witness ==
    \E r \in Req :
        /\ kind[r] = "resolve" /\ status[r] = 410
        /\ \E i \in 1..Len(links) :
              /\ links[i].short_code = shortCode[r]
              /\ links[i].expires_at = ISO(StartTime)
              /\ links[i].click_count = "0"
              /\ ClicksFor(links[i].id) = 0

\* the resolve requests that found the link and ended in 200 or 302
ResolvedVisits(id) ==
    Cardinality({ r \in Req : kind[r] = "resolve" /\ status[r] \in {200, 302}
                              /\ target[r] = id })

(***************************************************************************)
(* C8.  At quiescence, the number of click rows referencing a link equals  *)
(* the number of resolve requests that found that link and ended in        *)
(* CloakedPage (200) or Redirect (302); requests that ended in 404 or 410  *)
(* found no link and have no click row.  Stated for runs without any store *)
(* failure; the code breaks it by lost click rows.                         *)
(***************************************************************************)
C8_OneClickPerVisit ==
    (Quiescent /\ NoFailure) =>
        /\ \A i \in 1..Len(links) : ClicksFor(links[i].id) = ResolvedVisits(links[i].id)
        /\ \A i \in 1..Len(clicks) : ResolvedVisits(clicks[i].link_id) > 0

(***************************************************************************)
(* C9.  Rows persist: in every step, every id of the link table is still   *)
(* an id of the link table afterwards, and every click row is still in the *)
(* click table, unchanged.                                                 *)
(***************************************************************************)
C9_RecordsPersist ==
    [][ /\ \A i \in 1..Len(links) : \E j \in 1..Len(links') : links'[j].id = links[i].id
        /\ \A i \in 1..Len(clicks) : \E j \in 1..Len(clicks') : clicks'[j] = clicks[i] ]_vars

\* rows a and b agree on every field but click_count and updated_at
SameBut(a, b) ==
    [a EXCEPT !.click_count = "", !.updated_at = ""]
        = [b EXCEPT !.click_count = "", !.updated_at = ""]

(***************************************************************************)
(* C10.  The link-table rewrite of a resolved visit changes only the       *)
(* click_count and updated_at of the rows whose id is the resolved link's  *)
(* id: the table has the same rows before and after, and every other field *)
(* and every other row is the same.                                        *)
(***************************************************************************)
C10_RewriteFrame ==
    [][ \A r \in Req :
          WritesCount(r) =>
              /\ Len(links') = Len(links)
              /\ \A i \in 1..Len(links) :
                    IF links[i].id = target[r]
                    THEN SameBut(links'[i], links[i])
                    ELSE links'[i] = links[i] ]_vars

(***************************************************************************)
(* C11: click_count is monotonically non-decreasing under any interleaving *)
(* of resolve and create: no step lowers the click_count of a link row     *)
(* that stays in the link table.                                           *)
(***************************************************************************)
C11_CountMonotonic ==
    [][\A i \in 1..Len(links) : \A j \in 1..Len(links') :
          (links'[j].id = links[i].id /\ links'[j].short_code = links[i].short_code)
              => ParseInt(links'[j].click_count) >= ParseInt(links[i].click_count)]_vars

(***************************************************************************)
(* C12: when the resolve requests on an active, unexpired, uncloaked link  *)
(* run one after another, each adds exactly 1 to the link's click_count    *)
(* and appends one ClickRecord: after n resolves the link has click_count  *)
(* n and n ClickRecords, and each response is a 302 redirect to its        *)
(* original_url.  (The links of the run start with click_count 0 and no    *)
(* ClickRecord.)                                                           *)
(***************************************************************************)
\* the answered resolve requests whose lookup found a row with this code
ResolvesOf(code) ==
    { r \in Slot : kind[r] = "resolve" /\ shortCode[r] = code
                     /\ pc[r] = "done" /\ status[r] # 404 }

C12_SerialResolves ==
    Quiescent =>
        \A i \in 1..Len(links) :
            (links[i].is_active = "true" /\ links[i].is_cloaked # "true"
                /\ links[i].expires_at = "")
            => /\ ParseInt(links[i].click_count) = Cardinality(ResolvesOf(links[i].short_code))
               /\ ClicksFor(links[i].id) = Cardinality(ResolvesOf(links[i].short_code))
               /\ \A r \in ResolvesOf(links[i].short_code) :
                     status[r] = 302 /\ sent[r].location = links[i].original_url

(***************************************************************************)
(* C13: for a link the lookup found active and unexpired, the visit ends   *)
(* in CloakedPage (HTTP 200 with an HTML page that embeds the link's       *)
(* cloak_title, cloak_description and original_url) exactly when the       *)
(* link's is_cloaked is "true", and in Redirect (HTTP 302 to the link's    *)
(* original_url) otherwise.  An empty cloak_title or cloak_description is  *)
(* embedded as the template's default text.                                *)
(***************************************************************************)
\* resolve request r, past lookup and expiry check, is answered in this step
\* and no store operation of it has failed
AnswersVisit(r) ==
    /\ kind[r] = "resolve" /\ pc[r] \in {"countLoad", "countWrite"}
    /\ pc'[r] = "done" /\ status'[r] # 500

C13_CloakOrRedirect ==
    [][\A r \in Slot : AnswersVisit(r) =>
          LET l == link[r][1] IN
          IF l.is_cloaked = "true"
          THEN /\ status'[r] = 200
               /\ sent'[r].location = ""
               /\ Len(sent'[r].html) = 3
               /\ l.cloak_title # "" => sent'[r].html[1] = l.cloak_title
               /\ l.cloak_description # "" => sent'[r].html[2] = l.cloak_description
               /\ sent'[r].html[3] = l.original_url
          ELSE /\ status'[r] = 302
               /\ sent'[r].location = l.original_url
               /\ sent'[r].html = << >>]_vars

\* a visit to a cloaked link has ended in CloakedPage
C13_Witness ==
    \E r \in Slot : kind[r] = "resolve" /\ status[r] = 200 /\ sent[r].html # << >>

(***************************************************************************)
(* C14: for every visit that ends in CloakedPage or Redirect, the append   *)
(* of its ClickRecord has completed before the response is issued: a       *)
(* resolve request answered with 200 or 302 has had its writeCSV(clicks)   *)
(* complete.                                                               *)
(***************************************************************************)
C14_AppendBeforeResponse ==
    \A r \in Slot :
        (kind[r] = "resolve" /\ status[r] \in {200, 302}) => appended[r]

\* a visit has been answered with a redirect
C14_Witness ==
    \E r \in Slot : kind[r] = "resolve" /\ status[r] = 302 /\ appended[r]

(***************************************************************************)
(* C15: the code the allocator returns does not equal the short_code of    *)
(* any LinkRecord that is in the link table at the time the allocator      *)
(* returns it (the step in which the do-while loop of the creation ends).  *)
(***************************************************************************)
\* the do-while loop of creation r ends in this step
Allocates(r) == pc[r] = "idle" /\ kind'[r] = "create" /\ record'[r] # << >>

C15_AllocatedCodeFree ==
    [][\A r \in Slot : Allocates(r) =>
          \A i \in 1..Len(links) : links[i].short_code # record'[r][1].short_code]_vars

\* the allocator has returned a code while the table held two other codes
C15_Witness ==
    \E r \in Slot :
        /\ kind[r] = "create" /\ pc[r] \in {"hash", "linkLoad"}
        /\ Len(links) >= 2
        /\ \A i \in 1..Len(links) : links[i].short_code # record[r][1].short_code

(***************************************************************************)
(* C16: allocation makes at most a bounded number of attempts: when no     *)
(* free code is found (e.g. every code is in use) it stops and the         *)
(* creation ends with AllocationExhausted, so no creation is ever left     *)
(* retrying without end.                                                   *)
(***************************************************************************)
C16_AllocationBounded == \A r \in Slot : pc[r] # "spin"

(***************************************************************************)
(* C17: a creation request whose required original_url is missing or       *)
(* malformed is rejected with a validation error and leaves the link table *)
(* unchanged: no step of such a request writes the link table, and the     *)
(* request is not answered with success.                                   *)
(***************************************************************************)
\* text is a well-formed URL (of the texts the requests of the model carry)
IsUrl(text) == text \in { b.original_url : b \in CreateBodies }

C17_BadUrlRejected ==
    [][\A r \in Slot :
          (kind[r] = "create" /\ record[r] # << >> /\ ~IsUrl(record[r][1].original_url))
              => (links' = links /\ status'[r] # 200)]_vars

(***************************************************************************)
(* C18: every successfully created link is persisted with a short_code of  *)
(* 6 characters over the 62-character alphanumeric alphabet, click_count   *)
(* 0, is_active true and user_id equal to the creating user's id: the step *)
(* that completes a creation's write leaves such a row, the one the        *)
(* request built, at the end of the link table.                            *)
(***************************************************************************)
Letters == {"a", "b", "c", "d", "e", "f", "g", "h", "i", "j", "k", "l", "m",
            "n", "o", "p", "q", "r", "s", "t", "u", "v", "w", "x", "y", "z"}
Capitals == {"A", "B", "C", "D", "E", "F", "G", "H", "I", "J", "K", "L", "M",
             "N", "O", "P", "Q", "R", "S", "T", "U", "V", "W", "X", "Y", "Z"}
Numerals == {"0", "1", "2", "3", "4", "5", "6", "7", "8", "9"}

IsAlphanumeric(text) ==
    \A k \in 1..Len(text) : SubSeq(text, k, k) \in Letters \cup Capitals \cup Numerals

C18_CreatedLinkFields ==
    [][\A r \in Slot : WritesNewLink(r) =>
          LET row == links'[Len(links')] IN
          /\ row = record[r][1]
          /\ Len(row.short_code) = 6
          /\ IsAlphanumeric(row.short_code)
          /\ row.click_count = "0"
          /\ row.is_active = "true"
          /\ row.user_id = reqUser[r]]_vars

\* a creation has succeeded and the row it answered with is in the table
C18_Witness ==
    \E r \in Slot :
        /\ kind[r] = "create" /\ status[r] = 200
        /\ \E j \in 1..Len(links) : << links[j] >> = sent[r].json
                                       /\ links[j].user_id = reqUser[r]

C20_TenantIsolation ==
    [][\A r \in Slot : \A u \in Users :
          (kind[r] = "resolve" /\ link[r] # << >> /\ link[r][1].user_id # u)
              => Aggregate(links', clicks', u) = Aggregate(links, clicks, u)]_vars

(***************************************************************************)
(* C21: when the owner has at most 5 links and no request is in flight,    *)
(* totalClicks of aggregate(userId) equals the sum of the clicks values of *)
(* topLinks, i.e. the sum of click_count over the owner's links.           *)
(***************************************************************************)
RECURSIVE SumClicks(_, _)
SumClicks(entries, n) ==
    IF n = 0 THEN 0 ELSE SumClicks(entries, n - 1) + entries[n].clicks

\* the number of rows of the link table that userId owns
Owned(userId) == Cardinality({ i \in 1..Len(links) : links[i].user_id = userId })

C21_TotalIsSumOfTop ==
    (Quiescent /\ NoFailure) =>
        \A u \in Users :
            Owned(u) <= 5 =>
                LET a == Aggregate(links, clicks, u) IN
                a.totalClicks = SumClicks(a.topLinks, Len(a.topLinks))

(***************************************************************************)
(* C22: in every result of aggregate(userId), uniqueClicks is the number   *)
(* of distinct ip_address values among the scoped clicks (the ClickRecords *)
(* whose link_id is the id of a link userId owns) and uniqueClicks <=      *)
(* totalClicks, whatever the store state is.                               *)
(***************************************************************************)
\* the positions of the click table that are in the scope of userId
Scoped(userId) ==
    { i \in 1..Len(clicks) :
        \E j \in 1..Len(links) : links[j].user_id = userId /\ links[j].id = clicks[i].link_id }

\* analytics request r has been answered with its summary
Summarised(r) == kind[r] = "analytics" /\ status[r] = 200

C22_UniqueAtMostTotal ==
    \A r \in Slot : Summarised(r) =>
        LET a == sent[r].json[1] IN
        /\ a.uniqueClicks = Cardinality({ clicks[i].ip_address : i \in Scoped(reqUser[r]) })
        /\ a.uniqueClicks <= a.totalClicks

\* a summary over three scoped clicks from two addresses
C22_Witness ==
    \E r \in Slot :
        /\ Summarised(r)
        /\ sent[r].json[1].totalClicks = 3
        /\ sent[r].json[1].uniqueClicks = 2

(***************************************************************************)
(* C23: topLinks contains min(5, number of owned links) entries, which are *)
(* the owned links with the highest click_count in descending order of     *)
(* click_count, links of equal click_count kept in their file order; each  *)
(* entry's title is the link's title, or original_url when the title is    *)
(* empty.                                                                   *)
(***************************************************************************)
\* the places of the link table that userId owns
OwnedRows(userId) == { i \in 1..Len(links) : links[i].user_id = userId }

\* the number of owned rows that come before row i in that order
Rank(userId, i) ==
    Cardinality({ j \in OwnedRows(userId) :
        \/ ParseInt(links[j].click_count) > ParseInt(links[i].click_count)
        \/ ParseInt(links[j].click_count) = ParseInt(links[i].click_count) /\ j < i })

C23_TopLinks ==
    \A r \in Slot : Summarised(r) =>
        LET top == sent[r].json[1].topLinks
            own == OwnedRows(reqUser[r])
        IN  /\ Len(top) = IF Cardinality(own) < 5 THEN Cardinality(own) ELSE 5
            /\ \A i \in own :
                 Rank(reqUser[r], i) < 5 =>
                    LET e == top[Rank(reqUser[r], i) + 1] IN
                    /\ e.short_code = links[i].short_code
                    /\ e.clicks = ParseInt(links[i].click_count)
                    /\ e.title = IF links[i].title = "" THEN links[i].original_url
                                 ELSE links[i].title

\* a summary of six owned links: five entries, the sort has moved a later row
\* to the front and a link without title shows its original_url
C23_Witness ==
    \E r \in Slot :
        /\ Summarised(r)
        /\ Cardinality(OwnedRows(reqUser[r])) = 6
        /\ Len(sent[r].json[1].topLinks) = 5
        /\ sent[r].json[1].topLinks[1].short_code # links[1].short_code
        /\ sent[r].json[1].topLinks[1].clicks = sent[r].json[1].topLinks[2].clicks
        /\ \E k \in 1..5, i \in 1..Len(links) :
               sent[r].json[1].topLinks[k].title = links[i].original_url

(***************************************************************************)
(* C24: aggregate(userId) is read-only and idempotent: no step of an       *)
(* analytics request changes a table, and two calls for one user with no   *)
(* store write between them return identical results.                      *)
(***************************************************************************)
\* analytics request r takes this step
AnalyticsStep(r) == kind'[r] = "analytics" /\ pc'[r] # pc[r]

\* request r follows an answered analytics request of the same user; in a run
\* whose requests come one after another nothing is written between the two
RepeatsCall(r) ==
    IF r = 1 THEN FALSE
    ELSE Summarised(r - 1) /\ reqUser[r - 1] = reqUser[r]

C24_ReadOnlyIdempotent ==
    [][\A r \in Slot : AnalyticsStep(r) =>
          /\ links' = links /\ clicks' = clicks
          /\ (status'[r] = 200 /\ RepeatsCall(r)) => sent'[r].json = sent[r - 1].json]_vars

\* two calls in a row for one user were answered, with a click in the summary
C24_Witness ==
    \E r \in Slot :
        /\ Summarised(r) /\ RepeatsCall(r)
        /\ sent[r].json[1].totalClicks > 0

(***************************************************************************)
(* C25: deviceTypes has one entry per distinct device_type among the       *)
(* scoped clicks, and clicksByDay one entry per distinct calendar date of  *)
(* created_at; each entry's count is the number of scoped clicks in that   *)
(* group, and the entries are ordered by the first occurrence of their key *)
(* in click-table order.                                                   *)
(***************************************************************************)
\* the first of the places S of the click table whose key is key
FirstAt(S, KeyAt(_), key) ==
    CHOOSE i \in S : KeyAt(i) = key /\ \A j \in S : KeyAt(j) = key => i <= j

\* keys and counts are the groups of the places S by KeyAt, in first-seen order
IsGrouping(keys, counts, S, KeyAt(_)) ==
    /\ Len(keys) = Cardinality({ KeyAt(i) : i \in S })
    /\ Len(counts) = Len(keys)
    /\ \A k \in 1..Len(keys) :
         /\ \E i \in S : KeyAt(i) = keys[k]
         /\ counts[k] = Cardinality({ i \in S : KeyAt(i) = keys[k] })
         /\ \A l \in 1..Len(keys) :
              k < l => FirstAt(S, KeyAt, keys[k]) < FirstAt(S, KeyAt, keys[l])

\* the calendar day a timestamp text falls on
DayNumber(text) == DateParse(text) \div DayLength

C25_Groupings ==
    \A r \in Slot : Summarised(r) =>
        LET a == sent[r].json[1]
            S == Scoped(reqUser[r])
        IN  /\ IsGrouping([k \in 1..Len(a.deviceTypes) |-> a.deviceTypes[k].device],
                          [k \in 1..Len(a.deviceTypes) |-> a.deviceTypes[k].clicks],
                          S, LAMBDA i : clicks[i].device_type)
            /\ IsGrouping([k \in 1..Len(a.clicksByDay) |-> a.clicksByDay[k].date],
                          [k \in 1..Len(a.clicksByDay) |-> a.clicksByDay[k].clicks],
                          S, LAMBDA i : "D" \o toString(DayNumber(clicks[i].created_at)))

\* a summary of three scoped clicks in two device groups and two days
C25_Witness ==
    \E r \in Slot :
        /\ Summarised(r)
        /\ sent[r].json[1].totalClicks = 3
        /\ Len(sent[r].json[1].deviceTypes) = 2
        /\ sent[r].json[1].deviceTypes[1].clicks = 2
        /\ Len(sent[r].json[1].clicksByDay) = 2
        /\ sent[r].json[1].clicksByDay[2].clicks = 2

(***************************************************************************)
(* C26: the outcome of a resolve does not depend on password_hash.  With   *)
(* the password_hash of the stored rows replaced by any other value, the   *)
(* lookup, the expiry check, the click record and the response of every    *)
(* resolve step come out the same, and no resolve is ever answered with a  *)
(* password challenge.                                                     *)
(***************************************************************************)
\* the password_hash values a row can carry: none, or a bcrypt hash
PasswordHashes == { "" } \cup { BcryptHash(b.password) : b \in CreateBodies }

\* the row l with its password_hash replaced by h
WithHash(l, h) == [l EXCEPT !.password_hash = h]

\* a resolve request that has recorded its click sends its response
Answers(r) ==
    /\ kind[r] = "resolve" /\ pc[r] \in {"countLoad", "countWrite"}
    /\ status'[r] \notin {0, 500}

C26_PasswordIgnored ==
    [][\A r \in Req :
        /\ LooksUp(r) =>
             \A h \in PasswordHashes :
             \E i \in { FindLink([k \in 1..Len(links) |-> WithHash(links[k], h)],
                                 shortCode'[r]) } :
                /\ (status'[r] = 404) <=> (i = 0)
                /\ (status'[r] = 410) <=> (i # 0 /\ IsExpired(WithHash(links[i], h), now))
                /\ (status'[r] = 0) =>
                     \E visitor \in Visitors, suffix \in RandomSuffix :
                         record'[r] = << ClickRecord(WithHash(links[i], h),
                                                     visitor, suffix, now) >>
        /\ Answers(r) =>
             \A h \in PasswordHashes :
                /\ status'[r] = ResponseStatus(WithHash(link[r][1], h))
                /\ sent'[r] = ResponseContent(WithHash(link[r][1], h))
        /\ kind'[r] = "resolve" => status'[r] \in {0, 404, 410, 200, 302, 500}]_vars

\* a visit to a password-protected link was recorded and answered with the page
C26_Witness ==
    \E r \in Req :
        /\ kind[r] = "resolve" /\ status[r] = 200 /\ appended[r]
        /\ \E i \in 1..Len(links) :
             /\ links[i].short_code = shortCode[r] /\ links[i].is_active = "true"
             /\ links[i].password_hash = BcryptHash("secret")

(***************************************************************************)
(* C27: when creations do not interleave, the short_code a creation        *)
(* inserts is distinct from every short_code already in the link table,    *)
(* so every serial sequence of creations keeps the short codes of the      *)
(* table pairwise distinct.                                                *)
(***************************************************************************)
\* the short codes of the rows of a link table
CodesOf(rows) == { rows[i].short_code : i \in 1..Len(rows) }

C27_SerialCodesFresh ==
    [][\A r \in Slot : WritesNewLink(r) =>
          /\ Len(links') = Len(links) + 1
          /\ links'[Len(links')].short_code \notin CodesOf(links)
          /\ Cardinality(CodesOf(links)) = Len(links)
               => Cardinality(CodesOf(links')) = Len(links')]_vars

\* two creations, one after the other, have both inserted their rows
C27_Witness ==
    \E r \in Slot :
        /\ r > 1
        /\ kind[r] = "create" /\ status[r] = 200
        /\ kind[r - 1] = "create" /\ status[r - 1] = 200
        /\ \E i, j \in 1..Len(links) :
             /\ i < j
             /\ << links[i] >> = sent[r - 1].json /\ << links[j] >> = sent[r].json
             /\ links[i].short_code # links[j].short_code

(***************************************************************************)
(* C28: the lookup precedes the expiry check.  A resolve of a code whose   *)
(* only rows are inactive is answered 404 even when such a row is past its *)
(* expires_at, never 410; 410 is answered only for a row that the lookup   *)
(* found with is_active = "true" and that is past its expires_at.          *)
(***************************************************************************)
\* the places of the link table that hold the code
RowsOf(code) == { i \in 1..Len(links) : links[i].short_code = code }

C28_LookupBeforeExpiry ==
    [][\A r \in Req : LooksUp(r) =>
          /\ (\A i \in RowsOf(shortCode'[r]) : links[i].is_active # "true")
                => status'[r] = 404
          /\ status'[r] = 410 =>
                \E i \in RowsOf(shortCode'[r]) :
                    /\ links[i].is_active = "true"
                    /\ links[i].expires_at # ""
                    /\ DateParse(links[i].expires_at) < now]_vars

\* a resolve of a code held only by an inactive row past its expires_at was
\* answered 404
C28_Witness ==
    \E r \in Req :
        /\ kind[r] = "resolve" /\ status[r] = 404
        /\ RowsOf(shortCode[r]) # {}
        /\ \A i \in RowsOf(shortCode[r]) :
             /\ links[i].is_active = "false"
             /\ links[i].expires_at # ""
             /\ DateParse(links[i].expires_at) < now

(***************************************************************************)
(* C29: every resolve request, under fair scheduling of its store          *)
(* operations, eventually terminates in exactly one of NotFound (404),     *)
(* Expired (410), CloakedPage (200), Redirect (302) or ServerError (500),  *)
(* and issues exactly one response: once answered, its status and what it  *)
(* sent never change and it takes no further step.  Fair scheduling means   *)
(* that the event loop keeps running the callbacks of settled store         *)
(* operations, so the behaviours in which a creation's do-while loop       *)
(* occupies it for ever (C16) are not among those the claim speaks of.     *)
(***************************************************************************)
ResolveOutcomes == {404, 410, 200, 302, 500}

InFlight(r) == kind[r] = "resolve" /\ pc[r] # "done"
Terminated(r) == kind[r] = "resolve" /\ pc[r] = "done" /\ status[r] \in ResolveOutcomes

CountUpdateFails(r) ==
    /\ kind[r] = "resolve" /\ pc[r] \in {"countLoad", "countWrite"}
    /\ status'[r] = 500

C30_NoRollback ==
    [][\A r \in Req : CountUpdateFails(r) =>
          /\ pc'[r] = "done"
          /\ clicks' = clicks
          /\ \E i \in 1..Len(clicks') : clicks'[i] = record[r][1]
          /\ links' = links
          /\ \A j \in 1..Len(links') :
                links'[j].id = link[r][1].id =>
                    Cardinality({ i \in 1..Len(clicks') :
                                    clicks'[i].link_id = link[r][1].id })
                        > ParseInt(links'[j].click_count)]_vars

(***************************************************************************)
(* C31: with no concurrent writer, appendRow leaves the table equal to the *)
(* rows loaded before, in their order, followed by the new row as the last *)
(* row, and loadAll returns the rows in that insertion order: the load of  *)
(* an append holds the table's rows in file order, its write leaves them   *)
(* followed by the new row, and the rows the analytics handler loads are   *)
(* the table in file order.                                                *)
(***************************************************************************)
\* request r completes the readCSV of an appendToCSV in this step
LoadsForAppend(r, from, to) == pc[r] = from /\ pc'[r] = to

C31_AppendLast ==
    [][\A r \in Slot :
          /\ LoadsForAppend(r, "linkLoad", "linkWrite")
                => data'[r] = Append(links, record[r][1])
          /\ LoadsForAppend(r, "clickLoad", "clickWrite")
                => data'[r] = Append(clicks, record[r][1])
          /\ WritesNewLink(r) =>
                /\ SubSeq(links', 1, Len(links)) = links
                /\ links' = Append(links, record[r][1])
          /\ WritesClicks(r) =>
                /\ SubSeq(clicks', 1, Len(clicks)) = clicks
                /\ clicks' = Append(clicks, record[r][1])
          /\ (pc[r] = "idle" /\ kind'[r] = "analytics" /\ pc'[r] = "readClicks")
                => data'[r] = links]_vars

\* two visits and then a creation: the click table holds the two ClickRecords
\* in the order of the visits and the created row is the last of the link table
C31_Witness ==
    /\ Len(clicks) = 2
    /\ \E r \in Slot :
         /\ r = 3 /\ kind[r] = "create" /\ status[r] = 200
         /\ kind[1] = "resolve" /\ kind[2] = "resolve"
         /\ << links[Len(links)] >> = sent[r].json
         /\ Len(links) > 1

(***************************************************************************)
(* C32: every ClickRecord's link_id is the id of the link found by the     *)
(* lookup of the visit that created it, and its campaign_id is that link's *)
(* campaign_id as read at lookup time (empty when the link has none): the  *)
(* record a lookup builds carries the id and the campaign of the row that  *)
(* find returned, and the row the visit's append adds to the click table   *)
(* is that record.                                                         *)
(***************************************************************************)
C32_ClickLinksToLookup ==
    [][\A r \in Req :
          /\ (LooksUp(r) /\ status'[r] = 0) =>
                LET found == links[FindLink(links, shortCode'[r])] IN
                /\ link'[r] = << found >>
                /\ record'[r][1].link_id = found.id
                /\ record'[r][1].campaign_id = found.campaign_id
          /\ WritesClicks(r) =>
                /\ clicks'[Len(clicks')].link_id = link[r][1].id
                /\ clicks'[Len(clicks')].campaign_id = link[r][1].campaign_id]_vars

\* the click table holds the record of a visit to a link of a campaign
C32_Witness ==
    \E i \in 1..Len(clicks), j \in 1..Len(links) :
        /\ clicks[i].campaign_id = "campaign-1"
        /\ links[j].id = clicks[i].link_id
        /\ links[j].campaign_id = "campaign-1"

(***************************************************************************)
(* C33: in every reachable state, under any interleaving of resolve        *)
(* requests, a link's click_count never exceeds the number of ClickRecords *)
(* whose link_id is that link's id.                                        *)
(* The code breaks it: a visit's append can overwrite the ClickRecord of   *)
(* another visit whose counter increment still takes place.                *)
(***************************************************************************)
C33_CountNeverLeads ==
    \A i \in 1..Len(links) : ParseInt(links[i].click_count) <= ClicksFor(links[i].id)

(***************************************************************************)
(* C34: LinkRecord ids are pairwise distinct in every reachable state,     *)
(* including when two links are created within the same clock tick, so     *)
(* the counter update that locates a link by id updates the link that was  *)
(* resolved.                                                               *)
(* The code breaks it: the id is "link-" followed by Date.now() and        *)
(* nothing else, so two creations in one millisecond get the same id.      *)
(***************************************************************************)
C34_LinkIdsDistinct ==
    \A i, j \in 1..Len(links) : i # j => links[i].id # links[j].id

(***************************************************************************)
(* C35: referential integrity of the click log: in every reachable state,  *)
(* under any interleaving of create and resolve requests, each             *)
(* ClickRecord's link_id is the id of a LinkRecord in the link table.      *)
(***************************************************************************)
LinkIds == { links[j].id : j \in 1..Len(links) }

C35_ClicksReferToLinks ==
    \A i \in 1..Len(clicks) : clicks[i].link_id \in LinkIds

(***************************************************************************)
(* C36: in every result of aggregate(userId), the sum of the counts in     *)
(* deviceTypes and the sum of the counts in clicksByDay both equal         *)
(* totalClicks.                                                            *)
(***************************************************************************)
C36_BreakdownsSumToTotal ==
    \A r \in Slot : Summarised(r) =>
        LET a == sent[r].json[1] IN
        /\ a.totalClicks = Cardinality(Scoped(reqUser[r]))
        /\ SumClicks(a.deviceTypes, Len(a.deviceTypes)) = a.totalClicks
        /\ SumClicks(a.clicksByDay, Len(a.clicksByDay)) = a.totalClicks

\* a summary of three clicks whose breakdowns each have an entry of two
C36_Witness ==
    \E r \in Slot :
        /\ Summarised(r)
        /\ sent[r].json[1].totalClicks = 3
        /\ \E k \in 1..Len(sent[r].json[1].deviceTypes) :
             sent[r].json[1].deviceTypes[k].clicks = 2
        /\ \E k \in 1..Len(sent[r].json[1].clicksByDay) :
             sent[r].json[1].clicksByDay[k].clicks = 2

====
